---- MODULE Spec2Model ----
(***************************************************************************)
(* Model of the speech-turn pipeline stages of the Buddy voice server:     *)
(*   - WhisperSTTProcessor (server/stt_whisper.py): the Speech Aggregator   *)
(*     and its WAV encoder;                                                 *)
(*   - PiperTTSProcessor (server/tts_piper.py): the Synthesis Stage.        *)
(* Frames reach a processor one at a time: process_frame is a coroutine     *)
(* that awaits the recognition call inline, so the frames that arrive       *)
(* while it runs wait in the processor's input queue (inbox).               *)
(***************************************************************************)
EXTENDS Integers, Sequences, FiniteSets, TLC

VARIABLES
    inbox,          \* frames queued for WhisperSTTProcessor, oldest first
    pc,             \* position of process_frame: "idle", "stopped_pushed", "inflight";
                    \* "cancelled" once the pipeline task has been cancelled
    is_speaking,    \* self._is_speaking
    audio_buffer,   \* self._audio_buffer: list of chunk payloads
    session,        \* self._session: "none", "open" or "closed"
    out,            \* frames pushed by WhisperSTTProcessor, in order, each in the
                    \* direction it carries
    clients,        \* the aiohttp.ClientSession objects created so far: for each
                    \* the number of close() calls made on it
    duringCall,     \* history: which frames (by arrival number) were queued
                    \* while a recognition call was in flight
    calls,          \* recognition calls that reached the HTTP POST, in order
    escaped,        \* TRUE once an exception has left process_frame
    log,            \* history: frames whose handling has begun, in order
    bufAtStop,      \* history: the buffer when the last 'speech stopped' was taken
    ttsOut,         \* frames pushed downstream by PiperTTSProcessor, in order
    ttsEscaped,     \* TRUE once an exception has left its process_frame
    ttsLog,         \* history: frames it handled, with what the engine did
    wavIn,          \* arguments of the last _pcm_to_wav call
    wavOut          \* what that call returned

sttVars == <<inbox, pc, is_speaking, audio_buffer, session, out, calls, escaped,
             log, bufAtStop, clients, duringCall>>

ttsVars == <<ttsOut, ttsEscaped, ttsLog>>

wavVars == <<wavIn, wavOut>>

vars == <<sttVars, ttsVars, wavVars>>

----------------------------------------------------------------------------
(* Bounds of the model *)

MaxEvents == 6      \* frames delivered to the Speech Aggregator in one run
MaxInbox == 2       \* frames waiting in its input queue at a time
MaxTexts == 2       \* frames delivered to the Synthesis Stage in one run
MaxChunks == 2      \* chunks the synthesis engine yields for one text
MaxPcmLen == 3      \* bytes of PCM given to the WAV encoder on its own

----------------------------------------------------------------------------
(* Byte strings and text *)

RECURSIVE JoinBytes(_)
\* b"".join(parts)
JoinBytes(parts) ==
    IF parts = <<>> THEN <<>> ELSE Head(parts) \o JoinBytes(Tail(parts))

Whitespace == {" ", "\n"}

RECURSIVE LStrip(_)
LStrip(s) ==
    IF s # <<>> /\ Head(s) \in Whitespace THEN LStrip(Tail(s)) ELSE s

RECURSIVE RStrip(_)
RStrip(s) ==
    IF s # <<>> /\ s[Len(s)] \in Whitespace
    THEN RStrip(SubSeq(s, 1, Len(s) - 1))
    ELSE s

\* str.strip()
Strip(s) == RStrip(LStrip(s))

----------------------------------------------------------------------------
(* WAV encoder: WhisperSTTProcessor._pcm_to_wav *)

\* a struct.error raised by the encoder, told apart from every byte string
StructError == <<-1>>

\* mutant: the two bytes are written most significant first
PackH_bigendian(n) == <<(n \div 256) % 256, n % 256>>

\* struct.pack("<H", n): two bytes, least significant first
PackH(n) == <<n % 256, (n \div 256) % 256>>

\* mutant: the four bytes are written most significant first
PackI_bigendian(n) ==
    <<(n \div 16777216) % 256, (n \div 65536) % 256, (n \div 256) % 256, n % 256>>

\* struct.pack("<I", n): four bytes, least significant first
PackI(n) ==
    <<n % 256, (n \div 256) % 256, (n \div 65536) % 256, (n \div 16777216) % 256>>

\* struct.pack raises struct.error for a value outside the field
FitsH(n) == n >= 0 /\ n < 65536
FitsI(n) == n >= 0 /\ (n \div 65536) < 65536

TagRIFF == <<82, 73, 70, 70>>
TagWAVE == <<87, 65, 86, 69>>
TagFmt == <<102, 109, 116, 32>>
TagData == <<100, 97, 116, 97>>

\* sample_rate * num_channels * bits_per_sample // 8 on Python's integers,
\* which have no width: the product is formed byte by byte with carries and
\* then shifted by three bits. The result is the four little-endian bytes of
\* the byte rate, the last of them left unreduced so that a byte rate too
\* large for the field shows as a last byte above 255.
ByteRate(sample_rate, num_channels, bits_per_sample) ==
    LET m == num_channels * bits_per_sample
        d0 == (sample_rate % 256) * m
        d1 == ((sample_rate \div 256) % 256) * m + d0 \div 256
        d2 == ((sample_rate \div 65536) % 256) * m + d1 \div 256
        d3 == (sample_rate \div 16777216) * m + d2 \div 256
    IN  <<(d0 % 256) \div 8 + (d1 % 8) * 32,
          (d1 % 256) \div 8 + (d2 % 8) * 32,
          (d2 % 256) \div 8 + (d3 % 8) * 32,
          d3 \div 8>>

PcmToWav(pcm_data, sample_rate, bits_per_sample) ==
    LET num_channels == 1
        byte_rate == ByteRate(sample_rate, num_channels, bits_per_sample)
        block_align == (num_channels * bits_per_sample) \div 8
        data_size == Len(pcm_data)
    IN  IF /\ FitsI(36 + data_size) /\ FitsI(sample_rate) /\ byte_rate[4] < 256
           /\ FitsH(block_align) /\ FitsH(bits_per_sample)
        THEN TagRIFF \o PackI(36 + data_size) \o TagWAVE \o TagFmt
             \o PackI(16) \o PackH(1) \o PackH(num_channels)
             \o PackI(sample_rate) \o byte_rate
             \o PackH(block_align) \o PackH(bits_per_sample)
             \o TagData \o PackI(data_size) \o pcm_data
        ELSE StructError

----------------------------------------------------------------------------
(* Frames *)

ChunkA == <<1>>
ChunkB == <<2, 3>>
AudioPayloads == {ChunkA, ChunkB}

StartedFrame == [type |-> "UserStartedSpeakingFrame"]
StoppedFrame == [type |-> "UserStoppedSpeakingFrame"]
EndFrame == [type |-> "EndFrame"]
OtherFrame == [type |-> "OtherFrame"]
\* a frame of another type that travels upstream: its direction goes with it
UpstreamFrame == [type |-> "OtherFrame", direction |-> "upstream"]
OtherFrames == {OtherFrame, UpstreamFrame}
AudioFrame(a) == [type |-> "AudioRawFrame", audio |-> a]

InputFrames ==
    {StartedFrame, StoppedFrame, EndFrame, OtherFrame}
        \cup {AudioFrame(a) : a \in AudioPayloads}

TranscriptionFrame(text) ==
    [type |-> "TranscriptionFrame", text |-> text, user_id |-> "user"]

IsAudio(f) == f.type = "AudioRawFrame"

----------------------------------------------------------------------------
(* Recognition service: what the POST to /inference can come back with:   *)
(* a body with a text under a status, a timeout, a connection error, or a  *)
(* body that is not JSON                                                    *)

Texts == {<<"h", "i">>, <<" ", "h", "i", " ">>, <<" ">>, <<>>}

Responses ==
    [kind : {"ok"}, status : {200}, text : Texts]
        \cup [kind : {"ok"}, status : {500}, text : {<<>>}]
        \cup [kind : {"timeout", "client_error", "bad_json"}, status : {0}, text : {<<>>}]

NoText == <<>>
Pending == [kind |-> "pending", status |-> 0, text |-> <<>>]

\* mutant: the text is returned as received, not stripped
TranscribeResult_nostrip(r) ==
    IF r.kind # "ok" THEN NoText
    ELSE IF r.status # 200 THEN NoText
    ELSE r.text

\* the value _transcribe returns for a response: a non-empty text, or None
TranscribeResult(r) ==
    IF r.kind # "ok" THEN NoText
    ELSE IF r.status # 200 THEN NoText
    ELSE Strip(r.text)

SampleRate == 16000
BitsPerSample == 16

\* mutant: only the last chunk of the buffer is uploaded
PcmData_lastonly(buffer) == buffer[Len(buffer)]

\* pcm_data = b"".join(self._audio_buffer)
PcmData(buffer) == JoinBytes(buffer)

\* mutant: a client is created for every call
CreatesSession_always(s) == TRUE

\* line 50: whether _get_session constructs a ClientSession
CreatesSession(s) == s = "none" \/ s = "closed"

\* self._get_session(): a new client when there is none or it is closed
GetSession(s) == IF s = "none" \/ s = "closed" THEN "open" ELSE s

\* self._cleanup(): close the client when one is open
Cleanup(s) == IF s = "open" THEN "closed" ELSE s

----------------------------------------------------------------------------
(* Speech Aggregator: WhisperSTTProcessor.process_frame *)

NoWavInput == [pcm_data |-> <<>>, sample_rate |-> 0, bits_per_sample |-> 0]

Init ==
    /\ inbox = <<>>
    /\ pc = "idle"
    /\ is_speaking = FALSE
    /\ audio_buffer = <<>>
    /\ session = "none"
    /\ out = <<>>
    /\ calls = <<>>
    /\ escaped = FALSE
    /\ log = <<>>
    /\ bufAtStop = <<>>
    /\ clients = <<>>
    /\ duringCall = {}
    /\ ttsOut = <<>>
    /\ ttsEscaped = FALSE
    /\ ttsLog = <<>>
    /\ wavIn = NoWavInput
    /\ wavOut = <<>>

\* the pipeline queues a frame for the processor; EndFrame is the last one
Deliver ==
    /\ pc # "cancelled"
    /\ Len(log) + Len(inbox) < MaxEvents
    /\ \A i \in 1..Len(log) : log[i] # EndFrame
    /\ \A i \in 1..Len(inbox) : inbox[i] # EndFrame
    /\ Len(inbox) < MaxInbox
    /\ \E f \in InputFrames : inbox' = Append(inbox, f)
    /\ duringCall' = IF pc = "inflight"
                     THEN duringCall \cup {Len(log) + Len(inbox) + 1}
                     ELSE duringCall
    /\ UNCHANGED <<pc, is_speaking, audio_buffer, session, out, calls, escaped,
                   log, bufAtStop, clients>>

\* mutant: frames are handled while a recognition call is in flight
Ready_concurrent(f) ==
    pc \in {"idle", "inflight"} /\ ~escaped /\ inbox # <<>> /\ f = Head(inbox)

\* the processor is ready for the frame at the head of its queue
Ready(f) == pc = "idle" /\ ~escaped /\ inbox # <<>> /\ f = Head(inbox)

Take(f) == inbox' = Tail(inbox) /\ log' = Append(log, f)

\* mutant: the buffer is not emptied
HandleStarted_noreset ==
    /\ Ready(StartedFrame)
    /\ Take(StartedFrame)
    /\ is_speaking' = TRUE
    /\ out' = Append(out, StartedFrame)
    /\ UNCHANGED <<pc, audio_buffer, session, calls, escaped, bufAtStop>>

HandleStarted ==
    /\ Ready(StartedFrame)
    /\ Take(StartedFrame)
    /\ is_speaking' = TRUE
    /\ audio_buffer' = <<>>
    /\ out' = Append(out, StartedFrame)
    /\ UNCHANGED <<pc, session, calls, escaped, bufAtStop>>

\* lines 64-68: the flag is lowered and the frame is pushed
HandleStopped ==
    /\ Ready(StoppedFrame)
    /\ Take(StoppedFrame)
    /\ is_speaking' = FALSE
    /\ out' = Append(out, StoppedFrame)
    /\ bufAtStop' = audio_buffer
    /\ pc' = "stopped_pushed"
    /\ UNCHANGED <<audio_buffer, session, calls, escaped>>

\* lines 70-71 and 97-124: nothing buffered ends the handler; otherwise the
\* buffer is joined, encoded and posted
Flush ==
    /\ pc = "stopped_pushed"
    /\ IF audio_buffer = <<>>
       THEN /\ pc' = "idle"
            /\ UNCHANGED <<session, calls, clients>>
       ELSE LET wav_bytes == PcmToWav(PcmData(audio_buffer), SampleRate, BitsPerSample)
            IN  /\ session' = GetSession(session)
                /\ clients' = IF CreatesSession(session)
                              THEN Append(clients, 0)
                              ELSE clients
                /\ calls' = Append(calls, [file |-> wav_bytes, response |-> Pending,
                                           client |-> Len(clients')])
                /\ pc' = "inflight"
    /\ UNCHANGED <<inbox, is_speaking, audio_buffer, out, escaped, log, bufAtStop>>

\* mutant: the buffer is not cleared after the call
Respond_noclear ==
    /\ pc = "inflight"
    /\ \E r \in Responses :
        LET text == TranscribeResult(r)
        IN  /\ calls' = [calls EXCEPT ![Len(calls)].response = r]
            /\ out' = IF text # NoText
                      THEN Append(out, TranscriptionFrame(text))
                      ELSE out
    /\ pc' = "idle"
    /\ UNCHANGED <<inbox, is_speaking, audio_buffer, session, escaped, log, bufAtStop>>

\* mutant: a timeout or connection error is not caught in _transcribe
Respond_raise ==
    /\ pc = "inflight"
    /\ \E r \in Responses :
        LET text == TranscribeResult(r)
        IN  /\ calls' = [calls EXCEPT ![Len(calls)].response = r]
            /\ out' = IF text # NoText
                      THEN Append(out, TranscriptionFrame(text))
                      ELSE out
            /\ escaped' = (r.kind # "ok")
            /\ audio_buffer' = IF r.kind # "ok" THEN audio_buffer ELSE <<>>
    /\ pc' = "idle"
    /\ UNCHANGED <<inbox, is_speaking, session, log, bufAtStop>>

\* lines 125-151 and 72-81: the call ends, a transcript is pushed when there
\* is text, and the buffer is cleared
Respond ==
    /\ pc = "inflight"
    /\ \E r \in Responses :
        LET text == TranscribeResult(r)
        IN  /\ calls' = [calls EXCEPT ![Len(calls)].response = r]
            /\ out' = IF text # NoText
                      THEN Append(out, TranscriptionFrame(text))
                      ELSE out
    /\ audio_buffer' = <<>>
    /\ pc' = "idle"
    /\ UNCHANGED <<inbox, is_speaking, session, escaped, log, bufAtStop>>

\* mutant: the chunk is buffered whether or not a session is active
HandleAudio_always ==
    \E a \in AudioPayloads :
        /\ Ready(AudioFrame(a))
        /\ Take(AudioFrame(a))
        /\ audio_buffer' = Append(audio_buffer, a)
        /\ out' = Append(out, AudioFrame(a))
        /\ UNCHANGED <<pc, is_speaking, session, calls, escaped, bufAtStop>>

HandleAudio ==
    \E a \in AudioPayloads :
        /\ Ready(AudioFrame(a))
        /\ Take(AudioFrame(a))
        /\ audio_buffer' = IF is_speaking THEN Append(audio_buffer, a) ELSE audio_buffer
        /\ out' = Append(out, AudioFrame(a))
        /\ UNCHANGED <<pc, is_speaking, session, calls, escaped, bufAtStop>>

HandleEnd ==
    /\ Ready(EndFrame)
    /\ Take(EndFrame)
    /\ session' = Cleanup(session)
    /\ clients' = IF Cleanup(session) # session
                  THEN [clients EXCEPT ![Len(clients)] = @ + 1]
                  ELSE clients
    /\ out' = Append(out, EndFrame)
    /\ UNCHANGED <<pc, is_speaking, audio_buffer, calls, escaped, bufAtStop>>

\* mutant: the frame is pushed in the default direction, downstream
HandleOther_downstream ==
    \E f \in OtherFrames :
        /\ Ready(f)
        /\ Take(f)
        /\ out' = Append(out, OtherFrame)
        /\ UNCHANGED <<pc, is_speaking, audio_buffer, session, calls, escaped,
                       bufAtStop>>

\* lines 92-93: any other frame is pushed in the direction it came with
HandleOther ==
    \E f \in OtherFrames :
        /\ Ready(f)
        /\ Take(f)
        /\ out' = Append(out, f)
        /\ UNCHANGED <<pc, is_speaking, audio_buffer, session, calls, escaped,
                       bufAtStop>>

Next ==
    \/ Deliver /\ UNCHANGED <<ttsVars, wavVars>>
    \/ HandleStarted /\ UNCHANGED <<clients, duringCall, ttsVars, wavVars>>
    \/ HandleStopped /\ UNCHANGED <<clients, duringCall, ttsVars, wavVars>>
    \/ Flush /\ UNCHANGED <<duringCall, ttsVars, wavVars>>
    \/ Respond /\ UNCHANGED <<clients, duringCall, ttsVars, wavVars>>
    \/ HandleAudio /\ UNCHANGED <<clients, duringCall, ttsVars, wavVars>>
    \/ HandleEnd /\ UNCHANGED <<duringCall, ttsVars, wavVars>>
    \/ HandleOther /\ UNCHANGED <<clients, duringCall, ttsVars, wavVars>>

\* the Speech Aggregator on its own
Spec == Init /\ [][Next]_vars

\* on_client_disconnected: task.cancel() stops the processor where it stands;
\* the frames still queued and the result of a call in flight are dropped.
\* No EndFrame is sent, so process_frame never reaches _cleanup.
Cancel ==
    /\ pc # "cancelled"
    /\ pc' = "cancelled"
    /\ inbox' = <<>>
    /\ UNCHANGED <<is_speaking, audio_buffer, session, out, calls, escaped, log,
                   bufAtStop, clients, duringCall>>

NextCancel ==
    \/ Next
    \/ Cancel /\ UNCHANGED <<ttsVars, wavVars>>

\* the Speech Aggregator with a client that may disconnect
SpecCancel == Init /\ [][NextCancel]_vars

\* a frame that travels upstream reaches the processor
DeliverUpstream ==
    /\ pc # "cancelled"
    /\ Len(log) + Len(inbox) < MaxEvents
    /\ \A n \in 1..Len(log) : log[n] # EndFrame
    /\ \A n \in 1..Len(inbox) : inbox[n] # EndFrame
    /\ Len(inbox) < MaxInbox
    /\ inbox' = Append(inbox, UpstreamFrame)
    /\ duringCall' = IF pc = "inflight"
                     THEN duringCall \cup {Len(log) + Len(inbox) + 1}
                     ELSE duringCall
    /\ UNCHANGED <<pc, is_speaking, audio_buffer, session, out, calls, escaped,
                   log, bufAtStop, clients>>

NextDir ==
    \/ Next
    \/ DeliverUpstream /\ UNCHANGED <<ttsVars, wavVars>>

\* the Speech Aggregator receiving frames of both directions
SpecDir == Init /\ [][NextDir]_vars

----------------------------------------------------------------------------
(* Synthesis Stage: PiperTTSProcessor *)

VoiceSampleRate == 22050

TextFrame(t) == [type |-> "TextFrame", text |-> t]
TTSStartedFrame == [type |-> "TTSStartedFrame"]
TTSStoppedFrame == [type |-> "TTSStoppedFrame"]
TTSAudioRawFrame(a) ==
    [type |-> "TTSAudioRawFrame", audio |-> a, sample_rate |-> VoiceSampleRate,
     num_channels |-> 1]

TTSTexts == {<<"h", "i">>, <<" ", "h", "i", "\n">>, <<" ", "\n">>, <<>>}

TTSInputFrames == {TextFrame(t) : t \in TTSTexts} \cup {EndFrame, OtherFrame}

\* chunk.audio_int16_bytes of the chunks the engine can yield
EngineChunks == {<<1, 0>>, <<2, 0>>}

SeqsUpTo(S, n) == UNION {[1..k -> S] : k \in 0..n}

\* self._voice.synthesize(text): the chunks it yields, and whether it then
\* raises instead of finishing
EngineRuns == [chunks : SeqsUpTo(EngineChunks, MaxChunks), raises : BOOLEAN]

NoRun == [chunks |-> <<>>, raises |-> FALSE]

\* mutant: one audio frame is pushed per engine chunk
SynthesizeAndEmit_chunkwise(text, run) ==
    IF run.raises
    THEN [pushed |-> <<TTSStartedFrame>>, escapes |-> FALSE]
    ELSE IF JoinBytes(run.chunks) = <<>>
    THEN [pushed |-> <<TTSStartedFrame>>, escapes |-> FALSE]
    ELSE [pushed |-> <<TTSStartedFrame>>
                         \o [i \in 1..Len(run.chunks) |-> TTSAudioRawFrame(run.chunks[i])]
                         \o <<TTSStoppedFrame>>,
          escapes |-> FALSE]

\* mutant: an engine exception is not caught
SynthesizeAndEmit_uncaught(text, run) ==
    IF run.raises
    THEN [pushed |-> <<TTSStartedFrame>>, escapes |-> TRUE]
    ELSE IF JoinBytes(run.chunks) = <<>>
    THEN [pushed |-> <<TTSStartedFrame>>, escapes |-> FALSE]
    ELSE [pushed |-> <<TTSStartedFrame, TTSAudioRawFrame(JoinBytes(run.chunks)),
                       TTSStoppedFrame>>,
          escapes |-> FALSE]

\* mutant: the stop marker is pushed even when the audio is empty
SynthesizeAndEmit_stoponempty(text, run) ==
    IF run.raises
    THEN [pushed |-> <<TTSStartedFrame>>, escapes |-> FALSE]
    ELSE IF JoinBytes(run.chunks) = <<>>
    THEN [pushed |-> <<TTSStartedFrame, TTSStoppedFrame>>, escapes |-> FALSE]
    ELSE [pushed |-> <<TTSStartedFrame, TTSAudioRawFrame(JoinBytes(run.chunks)),
                       TTSStoppedFrame>>,
          escapes |-> FALSE]

\* _synthesize_and_emit: the frames it pushes, and whether an exception
\* leaves it
SynthesizeAndEmit(text, run) ==
    IF run.raises
    THEN [pushed |-> <<TTSStartedFrame>>, escapes |-> FALSE]
    ELSE IF JoinBytes(run.chunks) = <<>>
    THEN [pushed |-> <<TTSStartedFrame>>, escapes |-> FALSE]
    ELSE [pushed |-> <<TTSStartedFrame, TTSAudioRawFrame(JoinBytes(run.chunks)),
                       TTSStoppedFrame>>,
          escapes |-> FALSE]

TTSDone(f, run, pushed, escapes) ==
    /\ ttsOut' = ttsOut \o pushed
    /\ ttsEscaped' = escapes
    /\ ttsLog' = Append(ttsLog, [frame |-> f, run |-> run, pushed |-> pushed])

TTSReady == ~ttsEscaped /\ Len(ttsLog) < MaxTexts
               /\ \A i \in 1..Len(ttsLog) : ttsLog[i].frame # EndFrame

\* process_frame on a TextFrame: blank text does nothing, other text is
\* synthesized
TTSHandleText ==
    /\ TTSReady
    /\ \E t \in TTSTexts :
        LET text == Strip(t)
        IN  IF text # <<>>
            THEN \E run \in EngineRuns :
                    LET r == SynthesizeAndEmit(text, run)
                    IN  TTSDone(TextFrame(t), run, r.pushed, r.escapes)
            ELSE TTSDone(TextFrame(t), NoRun, <<>>, FALSE)

\* mutant: EndFrame is consumed
TTSHandleEnd_swallow ==
    /\ TTSReady
    /\ TTSDone(EndFrame, NoRun, <<>>, FALSE)

TTSHandleEnd ==
    /\ TTSReady
    /\ TTSDone(EndFrame, NoRun, <<EndFrame>>, FALSE)

TTSHandleOther ==
    /\ TTSReady
    /\ TTSDone(OtherFrame, NoRun, <<OtherFrame>>, FALSE)

NextTTS ==
    \/ TTSHandleText /\ UNCHANGED <<sttVars, wavVars>>
    \/ TTSHandleEnd /\ UNCHANGED <<sttVars, wavVars>>
    \/ TTSHandleOther /\ UNCHANGED <<sttVars, wavVars>>

\* the Synthesis Stage on its own
SpecTTS == Init /\ [][NextTTS]_vars

----------------------------------------------------------------------------
(* The WAV encoder on its own *)

PcmBytes == {0, 1, 255}
WavSampleRates == {8000, 16000, 22050}
WavBitDepths == {8, 12, 16, 65552}

\* the formats tried: the usual ones, and the largest sample rate at 32 bits
WavFormats == (WavSampleRates \X WavBitDepths) \cup {<<2147483647, 32>>}

Encode ==
    \E p \in SeqsUpTo(PcmBytes, MaxPcmLen) :
        \E fmt \in WavFormats :
            /\ wavIn' = [pcm_data |-> p, sample_rate |-> fmt[1],
                         bits_per_sample |-> fmt[2]]
            /\ wavOut' = PcmToWav(p, fmt[1], fmt[2])

NextWav == Encode /\ UNCHANGED <<sttVars, ttsVars>>

SpecWav == Init /\ [][NextWav]_vars

----------------------------------------------------------------------------
(* Reading the model's history: helpers of the properties below *)

RECURSIVE Concat(_)
\* concatenation of a list of byte strings, in list order
Concat(parts) ==
    IF parts = <<>> THEN <<>>
    ELSE Concat(SubSeq(parts, 1, Len(parts) - 1)) \o parts[Len(parts)]

\* a standard WAV header reader: little-endian fields at their fixed offsets
ReadU16(w, at) == w[at] + 256 * w[at + 1]
ReadU32(w, at) == w[at] + 256 * w[at + 1] + 65536 * w[at + 2] + 16777216 * w[at + 3]

WavWellFormed(w) ==
    /\ w # StructError
    /\ Len(w) >= 44
    /\ SubSeq(w, 1, 4) = TagRIFF
    /\ SubSeq(w, 9, 12) = TagWAVE
    /\ SubSeq(w, 13, 16) = TagFmt
    /\ ReadU32(w, 17) = 16
    /\ ReadU16(w, 21) = 1
    /\ SubSeq(w, 37, 40) = TagData
    /\ ReadU32(w, 5) = Len(w) - 8
    /\ ReadU32(w, 41) = Len(w) - 44

WavDecode(w) ==
    [channels |-> ReadU16(w, 23),
     sample_rate |-> ReadU32(w, 25),
     bits |-> ReadU16(w, 35),
     data |-> SubSeq(w, 45, 44 + ReadU32(w, 41))]

\* the PCM bytes a recognition call uploaded
CallPcm(c) == IF WavWellFormed(c.file) THEN WavDecode(c.file).data ELSE <<-1>>

\* the frames whose handling is over: a 'speech stopped' that has been pushed
\* but not yet flushed is still being handled
Handled == IF pc = "stopped_pushed" THEN SubSeq(log, 1, Len(log) - 1) ELSE log

\* Utterances of a frame history: a 'speech started' opens one and empties it,
\* a chunk joins the open one, a 'speech stopped' closes it
UttInit == [active |-> FALSE, chunks |-> <<>>, flushed |-> <<>>, stops |-> <<>>,
            everSince |-> 0, stopsAfterChunk |-> 0]

UttStep(s, f, i) ==
    IF f = StartedFrame
        THEN [s EXCEPT !.active = TRUE, !.chunks = <<>>, !.everSince = 0]
    ELSE IF f = StoppedFrame
        THEN [s EXCEPT !.active = FALSE, !.chunks = <<>>,
                       !.flushed = IF s.chunks # <<>> THEN Append(@, s.chunks) ELSE @,
                       !.stops = IF s.chunks # <<>> THEN Append(@, i) ELSE @,
                       !.stopsAfterChunk = IF s.everSince > 0 THEN @ + 1 ELSE @]
    ELSE IF IsAudio(f) /\ s.active
        THEN [s EXCEPT !.chunks = Append(@, f.audio), !.everSince = @ + 1]
    ELSE s

RECURSIVE Utt(_)
Utt(h) ==
    IF h = <<>> THEN UttInit
    ELSE UttStep(Utt(SubSeq(h, 1, Len(h) - 1)), h[Len(h)], Len(h))

RECURSIVE AudioAfterLastStart(_)
\* the chunk payloads of a history that follow its last 'speech started'
AudioAfterLastStart(h) ==
    IF h = <<>> \/ h[Len(h)] = StartedFrame THEN <<>>
    ELSE LET before == AudioAfterLastStart(SubSeq(h, 1, Len(h) - 1))
         IN  IF IsAudio(h[Len(h)]) THEN Append(before, h[Len(h)].audio) ELSE before

CountOf(h, f) == Cardinality({i \in 1..Len(h) : h[i] = f})

IsTranscript(f) == f.type = "TranscriptionFrame"

RECURSIVE SelectTranscripts(_)
SelectTranscripts(o) ==
    IF o = <<>> THEN <<>>
    ELSE LET before == SelectTranscripts(SubSeq(o, 1, Len(o) - 1))
         IN  IF IsTranscript(o[Len(o)]) THEN Append(before, o[Len(o)]) ELSE before

Failed(r) == r # Pending /\ (r.kind # "ok" \/ r.status # 200)
HasText(r) == r # Pending /\ r.kind = "ok" /\ r.status = 200 /\ Strip(r.text) # <<>>

RECURSIVE ExpectedTranscripts(_)
\* the transcripts the finished calls are due, in call order
ExpectedTranscripts(cs) ==
    IF cs = <<>> THEN <<>>
    ELSE LET before == ExpectedTranscripts(SubSeq(cs, 1, Len(cs) - 1))
             r == cs[Len(cs)].response
         IN  IF HasText(r) THEN Append(before, TranscriptionFrame(Strip(r.text)))
             ELSE before

----------------------------------------------------------------------------
(* Properties of the Speech Aggregator *)

\* C1 (as stated): the number of recognition calls equals the number of
\* 'speech stopped' events preceded by at least one chunk buffered since the
\* most recent 'speech started'.
C1_CallsPerStopSinceStart ==
    pc = "idle" => Len(calls) = Utt(log).stopsAfterChunk

\* C1 (amended): the number of recognition calls equals the number of 'speech
\* stopped' events preceded by at least one chunk buffered since the most
\* recent 'speech started' and not yet flushed by an earlier 'speech
\* stopped'; [started, stopped] issues no call and leaves the buffer empty.
C1_CallsPerFlushingStop ==
    /\ Len(calls) = Len(Utt(Handled).flushed)
    /\ (log = <<StartedFrame, StoppedFrame>> /\ pc = "idle")
           => (calls = <<>> /\ audio_buffer = <<>>)

\* an utterance was flushed and a second 'speech stopped' followed it
C1_Witness ==
    /\ pc = "idle"
    /\ Len(calls) = 1
    /\ CountOf(log, StoppedFrame) = 2
    /\ Utt(log).stopsAfterChunk = 2

\* C2: a 'speech started' received while Collecting empties the buffer and
\* keeps the one session active; the payload of every call is made of the
\* chunks that followed the last 'speech started' before its 'speech stopped'.
C2_RestartResetsBuffer ==
    /\ is_speaking => audio_buffer = AudioAfterLastStart(log)
    /\ \A k \in 1..Len(calls) :
           /\ k <= Len(Utt(Handled).stops)
           /\ CallPcm(calls[k]) =
                  Concat(AudioAfterLastStart(SubSeq(log, 1, Utt(Handled).stops[k] - 1)))

\* a call was issued for a session that was restarted after it had buffered
C2_Witness ==
    /\ Len(calls) = 1
    /\ \E i \in 1..Len(log) : \E j \in 1..Len(log) :
           /\ i + 1 < j
           /\ log[i] = StartedFrame
           /\ log[j] = StartedFrame
           /\ \A m \in (i + 1)..(j - 1) : IsAudio(log[m])
           /\ \E n \in 1..Len(log) : n > j + 1 /\ log[n] = StoppedFrame
                  /\ \A m \in (j + 1)..(n - 1) : IsAudio(log[m])

StepOfIdleChunk(a) ==
    /\ pc = "idle" /\ ~is_speaking
    /\ inbox # <<>> /\ Head(inbox) = AudioFrame(a)
    /\ log' = Append(log, AudioFrame(a))

RECURSIVE TotalLen(_)
TotalLen(parts) ==
    IF parts = <<>> THEN 0 ELSE Len(Head(parts)) + TotalLen(Tail(parts))

\* the bytes of the chunks of a history that arrived while a session was active
RECURSIVE CollectedBytes(_)
CollectedBytes(h) ==
    IF h = <<>> THEN 0
    ELSE LET before == SubSeq(h, 1, Len(h) - 1)
         IN  CollectedBytes(before)
                 + (IF IsAudio(h[Len(h)]) /\ Utt(before).active
                    THEN Len(h[Len(h)].audio) ELSE 0)

\* C3: a chunk received while Idle is forwarded once and unchanged, leaves the
\* buffer as it was, issues no call, and its bytes reach no payload: the bytes
\* uploaded so far and those of a call being flushed all come from chunks that
\* arrived while a session was active.
C3_IdleChunkPassesThrough ==
    /\ [][\A a \in AudioPayloads : StepOfIdleChunk(a) =>
              /\ out' = Append(out, AudioFrame(a))
              /\ audio_buffer' = audio_buffer
              /\ calls' = calls]_vars
    /\ [](TotalLen([k \in 1..Len(calls) |-> CallPcm(calls[k])])
              + (IF pc = "inflight" THEN 0 ELSE TotalLen(audio_buffer))
                  <= CollectedBytes(log))

\* an idle chunk was forwarded and a later utterance was uploaded without it
C3_Witness ==
    /\ Len(log) >= 4
    /\ IsAudio(log[1])
    /\ out[1] = log[1]
    /\ Len(calls) = 1
    /\ log[1].audio = ChunkA
    /\ CallPcm(calls[1]) = ChunkB

\* C4: a finished call with non-empty trimmed text yields exactly one
\* Transcript with that text, pushed after the 'speech stopped' of its
\* utterance; a call with blank text yields none; no Transcript exists without
\* a call that returned non-empty text.
C4_TranscriptPerTextResult ==
    /\ SelectTranscripts(out) = ExpectedTranscripts(calls)
    /\ \A p \in 1..Len(out) :
           IsTranscript(out[p]) =>
               /\ p > 1
               /\ Len(SelectTranscripts(SubSeq(out, 1, p)))
                      <= CountOf(SubSeq(out, 1, p - 1), StoppedFrame)

\* one call returned padded text and produced its trimmed Transcript, another
\* returned blank text and produced none
C4_Witness ==
    /\ pc = "idle"
    /\ Len(calls) = 2
    /\ calls[1].response.kind = "ok" /\ calls[1].response.status = 200
    /\ calls[1].response.text = <<" ", "h", "i", " ">>
    /\ calls[2].response.kind = "ok" /\ calls[2].response.status = 200
    /\ calls[2].response.text = <<" ">>
    /\ SelectTranscripts(out) = <<TranscriptionFrame(<<"h", "i">>)>>

StepOfFailedCall ==
    /\ pc = "inflight"
    /\ pc' # "inflight"
    /\ Failed(calls'[Len(calls')].response)

\* C5: a call that times out, fails to connect or returns a non-200 status
\* pushes nothing, lets no exception out of process_frame and leaves the
\* aggregator ready and empty; the call of the utterance after a failed call
\* uploads exactly that utterance's chunks.
C5_FailureIsContained ==
    /\ [][StepOfFailedCall =>
              /\ out' = out
              /\ escaped' = FALSE
              /\ pc' = "idle"
              /\ audio_buffer' = <<>>]_vars
    /\ [](\A k \in 2..Len(calls) :
              Failed(calls[k - 1].response) =>
                  /\ k <= Len(Utt(Handled).flushed)
                  /\ CallPcm(calls[k]) = Concat(Utt(Handled).flushed[k]))

\* a call timed out and the next utterance was uploaded and transcribed
C5_Witness ==
    /\ Len(calls) = 2
    /\ calls[1].response.kind = "timeout"
    /\ HasText(calls[2].response)
    /\ SelectTranscripts(out) # <<>>
    /\ ~escaped

\* C16: once the handling of a 'speech stopped' is over the buffer is empty,
\* whatever the call returned; so whenever the aggregator is Idle and handles
\* no 'speech stopped', the buffer is empty.
C16_IdleBufferEmpty ==
    (pc = "idle" /\ ~is_speaking) => audio_buffer = <<>>

\* an utterance of two chunks was flushed, its call failed to connect, and
\* the aggregator is idle again
C16_Witness ==
    /\ pc = "idle"
    /\ ~is_speaking
    /\ Len(bufAtStop) = 2
    /\ Len(calls) = 1
    /\ calls[1].response.kind = "client_error"
    /\ audio_buffer = <<>>

\* C10: the payload of a call is the in-order concatenation of the chunks that
\* were in the buffer when its 'speech stopped' was handled, and no later step
\* (frames arriving or handled, the response) changes the payload of a call
\* already issued.
C10_PayloadIsSnapshot ==
    [][/\ Len(calls') >= Len(calls)
       /\ \A k \in 1..Len(calls) : calls'[k].file = calls[k].file
       /\ Len(calls') > Len(calls) =>
              CallPcm(calls'[Len(calls')]) = Concat(bufAtStop)]_vars

\* a frame arrived while a call carrying two chunks was in flight
C10_Witness ==
    /\ pc = "inflight"
    /\ inbox # <<>>
    /\ Len(bufAtStop) = 2
    /\ bufAtStop[1] # bufAtStop[2]

----------------------------------------------------------------------------
(* Properties of the Synthesis Stage *)

IsText(f) == f.type = "TextFrame"

\* the engine finished and yielded at least one chunk
EngineGave(e) == ~e.run.raises /\ e.run.chunks # <<>>

Bracket(e) ==
    <<TTSStartedFrame, TTSAudioRawFrame(Concat(e.run.chunks)), TTSStoppedFrame>>

C7_NothingOnEmptyAudio ==
    \A i \in 1..Len(ttsLog) :
        LET e == ttsLog[i]
        IN  (IsText(e.frame) /\ Strip(e.frame.text) # <<>>
                 /\ ~e.run.raises /\ e.run.chunks = <<>>) => e.pushed = <<>>

\* C8: an engine exception does not leave process_frame, and every later
\* non-empty text unit for which the engine succeeds still pushes start
\* marker, audio payload and stop marker in that order.
C8_EngineErrorIsContained ==
    /\ ~ttsEscaped
    /\ \A i \in 1..Len(ttsLog) : \A j \in 1..Len(ttsLog) :
           (i < j /\ ttsLog[i].run.raises
                  /\ IsText(ttsLog[j].frame) /\ Strip(ttsLog[j].frame.text) # <<>>
                  /\ EngineGave(ttsLog[j]))
               => /\ ttsLog[i].pushed = <<TTSStartedFrame>>
                  /\ ttsLog[j].pushed = Bracket(ttsLog[j])

\* the engine raised on one text and the next text was synthesized in full
C8_Witness ==
    /\ Len(ttsLog) = 2
    /\ ttsLog[1].run.raises
    /\ ttsLog[1].run.chunks # <<>>
    /\ EngineGave(ttsLog[2])
    /\ ttsOut = <<TTSStartedFrame>> \o Bracket(ttsLog[2])

IsTTSAudio(f) == f.type = "TTSAudioRawFrame"

\* the text unit ended without audio: the engine raised or gave empty audio
NoAudio(e) == e.run.raises \/ Concat(e.run.chunks) = <<>>

RECURSIVE PushedInOrder(_)
PushedInOrder(l) ==
    IF l = <<>> THEN <<>>
    ELSE PushedInOrder(SubSeq(l, 1, Len(l) - 1)) \o l[Len(l)].pushed

\* C19: the Synthesis Stage never forwards a TextFrame, and forwards every
\* other frame, EndFrame included, once and unchanged, in arrival order among
\* the markers and audio it generates.
C19_TextConsumedOthersForwarded ==
    /\ \A p \in 1..Len(ttsOut) : ~IsText(ttsOut[p])
    /\ \A i \in 1..Len(ttsLog) :
           LET e == ttsLog[i]
           IN  IF IsText(e.frame)
               THEN \A p \in 1..Len(e.pushed) :
                        e.pushed[p].type \in
                            {"TTSStartedFrame", "TTSAudioRawFrame", "TTSStoppedFrame"}
               ELSE e.pushed = <<e.frame>>
    /\ ttsOut = PushedInOrder(ttsLog)

\* a text was synthesized and the EndFrame after it was forwarded
C19_Witness ==
    /\ Len(ttsLog) = 2
    /\ ttsLog[1].frame = TextFrame(<<"h", "i">>)
    /\ ttsLog[2].frame = EndFrame
    /\ Len(ttsOut) = 4
    /\ ttsOut[3] = TTSStoppedFrame
    /\ ttsOut[4] = EndFrame

----------------------------------------------------------------------------
(* Properties of the WAV encoder *)

\* the parameters every header field can hold
\* sample_rate * bits_per_sample \div 8 is below 2^32: half of it, which is
\* (sample_rate \div 16) * bits_per_sample plus a small rest, is below 2^31
ByteRateRepresentable(in) ==
    LET rest == ((in.sample_rate % 16) * in.bits_per_sample) \div 16
    IN  \/ in.bits_per_sample = 0
        \/ in.sample_rate \div 16 <= (2147483647 - rest) \div in.bits_per_sample

ValidWavInput(in) ==
    /\ FitsI(in.sample_rate)
    /\ FitsH(in.bits_per_sample)
    /\ ByteRateRepresentable(in)
    /\ FitsI(36 + Len(in.pcm_data))

\* C9: for every PCM byte sequence and valid sample rate and bit depth, a
\* standard WAV header reader recovers from the output of _pcm_to_wav exactly
\* the PCM bytes, the sample rate, the bit depth and one channel.
C9_WavRoundTrip ==
    (wavIn # NoWavInput /\ ValidWavInput(wavIn)) =>
        /\ WavWellFormed(wavOut)
        /\ WavDecode(wavOut) = [channels |-> 1,
                                sample_rate |-> wavIn.sample_rate,
                                bits |-> wavIn.bits_per_sample,
                                data |-> wavIn.pcm_data]

\* three different bytes were encoded at 16 kHz, whose value spans two bytes
C9_Witness ==
    /\ wavIn.pcm_data = <<255, 0, 1>>
    /\ wavIn.sample_rate = 16000
    /\ wavIn.bits_per_sample = 16
    /\ Len(wavOut) = 47


\* the chunk payloads among the frames i+1 .. j-1 of the history, in order
PayloadsBetween(i, j) ==
    LET sel == SelectSeq(SubSeq(log, i + 1, j - 1), IsAudio)
    IN  [n \in 1..Len(sel) |-> sel[n].audio]

\* frames i .. j of the handled history are one utterance that was flushed:
\* a 'speech started', then at least one chunk and no other marker, then a
\* 'speech stopped'
FlushedUtterance(i, j) ==
    /\ i < j /\ j <= Len(Handled)
    /\ log[i] = StartedFrame
    /\ log[j] = StoppedFrame
    /\ \A n \in (i + 1)..(j - 1) : log[n] # StartedFrame /\ log[n] # StoppedFrame
    /\ PayloadsBetween(i, j) # <<>>

\* the calls that have been made and not yet answered
Outstanding == {k \in 1..Len(calls) : calls[k].response = Pending}

\* C11: when the frames of a new utterance arrive while the recognition call of
\* an earlier one is still in flight, the new utterance loses nothing: its own
\* call carries every one of its chunks, in order, whatever the earlier call
\* returned, and there is never more than one unanswered call.
C11_NextUtteranceSurvivesCall ==
    /\ Cardinality(Outstanding) <= 1
    /\ \A i \in 1..Len(log) : \A j \in 1..Len(log) :
          (FlushedUtterance(i, j) /\ (i..(j - 1)) \cap duringCall # {}) =>
              LET k == Len(Utt(SubSeq(log, 1, j)).flushed)
              IN  /\ k <= Len(calls)
                  /\ CallPcm(calls[k]) = Concat(PayloadsBetween(i, j))

C11_Witness ==
    /\ log = <<StartedFrame, AudioFrame(ChunkA), StoppedFrame,
               StartedFrame, AudioFrame(ChunkB), StoppedFrame>>
    /\ {4, 5} \subseteq duringCall
    /\ Len(calls) = 2
    /\ calls[1].response # Pending
    /\ CallPcm(calls[1]) = ChunkA
    /\ CallPcm(calls[2]) = ChunkB

\* some frame of the queue can be handled now
HandleQueued ==
    HandleStarted \/ HandleStopped \/ HandleAudio \/ HandleEnd \/ HandleOther

\* C12: a recognition call in flight does not hold back the frames that arrive
\* meanwhile: whenever a frame is waiting while a call is unanswered, the
\* processor can take it and forward it.
C12_CallDoesNotHoldFrames ==
    (pc = "inflight" /\ inbox # <<>>) => ENABLED HandleQueued

\* C13: once the pipeline has been cancelled, the client of the recognition
\* service is closed.
C13_CancelClosesClient ==
    pc = "cancelled" => (session # "open" /\ \A c \in 1..Len(clients) : clients[c] = 1)

RECURSIVE WithoutTranscripts(_)
WithoutTranscripts(o) ==
    IF o = <<>> THEN <<>>
    ELSE IF IsTranscript(Head(o)) THEN WithoutTranscripts(Tail(o))
    ELSE <<Head(o)>> \o WithoutTranscripts(Tail(o))

\* C15: every frame received is pushed on exactly once, unchanged, in the
\* direction it came with and in the order received; the only frames the
\* processor adds are transcripts.
C15_EveryFrameForwardedOnce ==
    /\ WithoutTranscripts(out) = log
    /\ \A n \in 1..Len(out) :
          IsTranscript(out[n]) => (n > 1 /\ out[n - 1] = StoppedFrame)

C15_Witness ==
    /\ log = <<UpstreamFrame, StartedFrame, AudioFrame(ChunkB), StoppedFrame, EndFrame>>
    /\ Len(out) = 6
    /\ out[1] = UpstreamFrame
    /\ IsTranscript(out[5])
    /\ out[6] = EndFrame


\* the byte layout of a WAV file made from the input in
WavLayout(in, w) ==
    LET n == Len(in.pcm_data)
    IN  /\ Len(w) = 44 + n
        /\ SubSeq(w, 1, 4) = TagRIFF
        /\ ReadU32(w, 5) = 36 + n
        /\ SubSeq(w, 9, 12) = TagWAVE
        /\ SubSeq(w, 13, 16) = TagFmt
        /\ ReadU16(w, 23) = 1
        /\ ReadU32(w, 25) = in.sample_rate
        /\ ReadU32(w, 29) = (in.sample_rate * 1 * in.bits_per_sample) \div 8
        /\ ReadU16(w, 33) = (1 * in.bits_per_sample) \div 8
        /\ ReadU16(w, 35) = in.bits_per_sample
        /\ SubSeq(w, 37, 40) = TagData
        /\ ReadU32(w, 41) = n
        /\ SubSeq(w, 45, Len(w)) = in.pcm_data

\* C17 as stated: for every PCM byte sequence and every sample rate and bit
\* depth that fit their header fields, _pcm_to_wav returns 44 + n bytes laid
\* out as a 44-byte little-endian header followed by the PCM bytes.
C17_LayoutForEveryFormat ==
    (wavIn # NoWavInput /\ FitsI(wavIn.sample_rate) /\ FitsH(wavIn.bits_per_sample)) =>
        WavLayout(wavIn, wavOut)

\* C17 amended: the same layout, for the inputs whose total size and byte rate
\* fit their 32-bit header fields as well.
C17_LayoutWhenByteRateFits ==
    (/\ wavIn # NoWavInput
     /\ FitsI(wavIn.sample_rate) /\ FitsH(wavIn.bits_per_sample)
     /\ FitsI(36 + Len(wavIn.pcm_data))
     /\ ByteRateRepresentable(wavIn)) =>
        WavLayout(wavIn, wavOut)

\* three bytes at 22050 Hz and 12 bits: a byte rate and a block alignment that
\* the division by 8 rounds down
C17_Witness ==
    /\ wavIn = [pcm_data |-> <<0, 1, 255>>, sample_rate |-> 22050, bits_per_sample |-> 12]
    /\ Len(wavOut) = 47
    /\ ReadU32(wavOut, 29) = 33075
    /\ ReadU16(wavOut, 33) = 1

====
